---- MODULE Spec2Model ----
(***************************************************************************)
(* Model of the useAudioRecorder hook (src/src/hooks/useAudioRecorder.ts), *)
(* the recording session state machine: React state, refs, the capture     *)
(* devices (MediaRecorder + MediaStream), the player (HTMLAudioElement),   *)
(* the object-URL store, the interval timers and every asynchronous        *)
(* continuation (promise or timeout) the hook leaves pending.              *)
(*                                                                         *)
(* A callback invoked by the user reads the React state of the render it   *)
(* was created in; what it reads after an await is still that render's     *)
(* value.  Each pending continuation therefore carries the closure values  *)
(* (cState, cUrl, cDur) captured when the callback was invoked.            *)
(* Times are counted in units of 1/Scale second except `duration` and      *)
(* `pausedTimeRef`, which count whole seconds as the tick interval does.   *)
(***************************************************************************)
EXTENDS Integers, Sequences, FiniteSets, TLC

\* ---------------------------------------------------------------- bounds
MaxRecorders == 2
MaxFrags == 3
MaxUrls == 2
MaxDuration == 2
MaxPending == 2
MaxOps == 4
MaxEvents == 3
\* decoded buffers: channels, frames, and samples of -MaxSample/SampleUnit ..
\* MaxSample/SampleUnit in steps of 1/SampleUnit (values beyond 1 included)
MaxChannels == 2
MaxFrames == 2
SampleUnit == 3
MaxSample == 4

\* time resolution: positions and decoded durations are in 1/Scale second
Scale == 2

\* ------------------------------------------------------------ value sets
NoUrl == 0
NoRec == 0
NoBlob == [kind |-> "none", frags |-> <<>>]
NoPlayer == [exists |-> FALSE, src |-> NoUrl, loadable |-> FALSE, paused |-> TRUE,
             ended |-> FALSE, playing |-> FALSE, pos |-> 0]
NoWait == [on |-> FALSE, cDur |-> 0, cUrl |-> NoUrl]
\* what a finalize call returned: nothing yet, null, or {blob, url}
NoRet == [returned |-> FALSE, url |-> NoUrl]
Null == [returned |-> TRUE, url |-> NoUrl]
Handle(u) == [returned |-> TRUE, url |-> u]

Recorders == 1..MaxRecorders
Urls == 1..MaxUrls

VARIABLES
    \* React state (useState)
    state, duration, playbackTime, hasPermission, audioBlob, audioUrl,
    \* refs (useRef)
    mediaRecorderRef, streamRef, audioRef, timerRef, playbackTimerRef,
    chunksRef, pausedTimeRef, totalRecordingDurationRef, isFinalized,
    \* platform objects the refs point to
    recorders,      \* MediaRecorder objects: state, onstop wrapper, and (observation
                    \* only) the ids of the fragments the running segment emitted
    tracks,         \* streams whose tracks are live
    tickers,        \* number of live elapsed-time intervals
    pollers,        \* number of live playback-position intervals
    liveUrls,       \* object URLs created and not revoked
    urlBlob,        \* content behind every object URL ever created
    emitted,        \* number of fragments emitted so far
    \* pending asynchronous continuations
    starts, fins, bgTimers, plays, dlTimers,
    \* component lifetime and user-event budget
    mounted, ops,
    \* value returned by the latest finalize call made and returned since the
    \* last capture activity (observation only, never read by the program)
    ret,
    \* the PCM encoder, apart from the session: the decoded buffer handed to
    \* it and the WAV it returned
    audioBuffer, encoded

reactVars == <<state, duration, playbackTime, hasPermission, audioBlob, audioUrl>>
refVars == <<mediaRecorderRef, streamRef, audioRef, timerRef, playbackTimerRef,
             chunksRef, pausedTimeRef, totalRecordingDurationRef, isFinalized>>
platformVars == <<recorders, tracks, tickers, pollers, liveUrls, urlBlob, emitted>>
taskVars == <<starts, fins, bgTimers, plays, dlTimers>>
hookVars == <<reactVars, refVars, platformVars, taskVars, mounted, ops, ret>>
encVars == <<audioBuffer, encoded>>
vars == <<hookVars, encVars>>

\* -------------------------------------------------------------- helpers
\* a step of the session: the encoder's buffers are not the session's
HookStep(A) == A /\ UNCHANGED encVars

\* every user event and the disposal spend one unit of the event budget
Budget == ops < MaxOps /\ ops' = ops + 1

RemoveAt(s, i) == SubSeq(s, 1, i - 1) \o SubSeq(s, i + 1, Len(s))

\* duration the decoder reports for a blob made of these fragments
RECURSIVE DecodedDuration(_)
DecodedDuration(frags) ==
    IF frags = <<>> THEN 0 ELSE Head(frags).size + DecodedDuration(Tail(frags))

\* next unused object URL / recorder (0 when the bound is reached)
FreshUrl == IF \E u \in Urls : urlBlob[u] = NoBlob
            THEN CHOOSE u \in Urls : urlBlob[u] = NoBlob /\ \A v \in Urls : v < u => urlBlob[v] # NoBlob
            ELSE NoUrl
FreshRec == IF \E r \in Recorders : recorders[r].st = "unused"
            THEN CHOOSE r \in Recorders : recorders[r].st = "unused"
                                       /\ \A q \in Recorders : q < r => recorders[q].st # "unused"
            ELSE NoRec


\* observation marks on the finalizations in flight, never read by the program:
\* `clean` until capture activity (a resume, a new segment, a fragment, a reset)
\* happens after the call; `moved` when the fragment list had changed by the
\* time the conversion ran
MarkCaptured(fs) == [i \in DOMAIN fs |-> [fs[i] EXCEPT !.clean = FALSE]]

\* play() promises still pending are rejected when the element is paused or reloaded
RejectPlayPromises(ps) == SelectSeq(ps, LAMBDA p : p.pc # "settle")

\* ------------------------------------------------ timers, tracks, handles
\* The refs and platform objects that the timer helpers, the track stops and
\* the cleanup effect run over, threaded through a handler as a record.
CurEnv == [timerRef |-> timerRef, tickers |-> tickers,
           playbackTimerRef |-> playbackTimerRef, pollers |-> pollers,
           tracks |-> tracks, recorders |-> recorders, liveUrls |-> liveUrls]

SetEnv(e) ==
    /\ timerRef' = e.timerRef
    /\ tickers' = e.tickers
    /\ playbackTimerRef' = e.playbackTimerRef
    /\ pollers' = e.pollers
    /\ tracks' = e.tracks
    /\ recorders' = e.recorders
    /\ liveUrls' = e.liveUrls

\* startTimer: a new interval; the ref is overwritten without clearing the old one
StartTimer(e) == [e EXCEPT !.tickers = @ + 1, !.timerRef = TRUE]

\* stopTimer: clears only the interval the ref points to
StopTimer(e) == [e EXCEPT !.tickers = IF e.timerRef THEN @ - 1 ELSE @, !.timerRef = FALSE]

StartPlaybackTimer(e) == [e EXCEPT !.pollers = @ + 1, !.playbackTimerRef = TRUE]

StopPlaybackTimer(e) ==
    [e EXCEPT !.pollers = IF e.playbackTimerRef THEN @ - 1 ELSE @, !.playbackTimerRef = FALSE]

\* streamRef.current.getTracks().forEach(track => track.stop()): a recorder
\* whose tracks have all ended is inactivated by the platform and then
\* delivers its last data and its stop event
StopTracks(e, s) ==
    IF s = NoRec \/ s \notin e.tracks THEN e
    ELSE [e EXCEPT !.tracks = @ \ {s},
                   !.recorders = IF @[s].st = "recording"
                                 THEN [@ EXCEPT ![s].st = "stopping"] ELSE @]

RevokeObjectURL(e, u) == [e EXCEPT !.liveUrls = @ \ {u}]

\* cleanup of the effect keyed on audioUrl: runs with the audioUrl of the
\* render that installed it
CleanupEffect(e, sref, oldUrl) ==
    RevokeObjectURL(StopTracks(StopPlaybackTimer(StopTimer(e)), sref), oldUrl)

\* a render that changes audioUrl re-runs the effect, i.e. runs its cleanup
AfterRender(e, sref, oldUrl, newUrl) ==
    IF newUrl # oldUrl THEN CleanupEffect(e, sref, oldUrl) ELSE e

\* ------------------------------------------------------------------ Init
\* the hook as constructed, with the outcome of the mount effect's permission
\* query (granted, denied, or left at null for the prompt)
InitHook ==
    /\ state = "idle" /\ duration = 0 /\ playbackTime = 0
    /\ hasPermission \in {"null", "granted", "denied"}
    /\ audioBlob = NoBlob /\ audioUrl = NoUrl
    /\ mediaRecorderRef = NoRec /\ streamRef = NoRec /\ audioRef = NoPlayer
    /\ timerRef = FALSE /\ playbackTimerRef = FALSE
    /\ chunksRef = <<>> /\ pausedTimeRef = 0
    /\ totalRecordingDurationRef = 0 /\ isFinalized = FALSE
    /\ recorders = [r \in Recorders |-> [st |-> "unused", wait |-> NoWait, ids |-> {}]]
    /\ tracks = {} /\ tickers = 0 /\ pollers = 0
    /\ liveUrls = {} /\ urlBlob = [u \in Urls |-> NoBlob] /\ emitted = 0
    /\ starts = <<>> /\ fins = <<>> /\ bgTimers = <<>> /\ plays = <<>> /\ dlTimers = <<>>
    /\ mounted = TRUE /\ ops = 0
    /\ ret = NoRet

\* no buffer has been handed to the encoder
NoBuffer == [numberOfChannels |-> 0, length |-> 0, sampleRate |-> 0, data |-> <<>>]
NoWav == [by |-> "none", bytes |-> <<>>]

Init == InitHook /\ audioBuffer = NoBuffer /\ encoded = NoWav

\* ------------------------------------------------------------ permission
\* requestPermission: the acquired stream is stored in streamRef and stopped at once
RequestPermission(granted) ==
    /\ mounted
    /\ hasPermission' = IF granted THEN "granted" ELSE "denied"
    /\ streamRef' = IF granted THEN NoRec ELSE streamRef
    /\ UNCHANGED <<state, duration, playbackTime, audioBlob, audioUrl,
                   mediaRecorderRef, audioRef, timerRef, playbackTimerRef, chunksRef,
                   pausedTimeRef, totalRecordingDurationRef, isFinalized,
                   platformVars, taskVars, mounted, ret>>

\* ------------------------------------------------------ start and resume
\* startRecording invoked: suspended on getUserMedia with this render's closure
\* (cFin, the flag as it was before the call, is for observation only)
StartRecording ==
    /\ mounted /\ Len(starts) < MaxPending
    /\ starts' = Append(starts, [cState |-> state, cUrl |-> audioUrl, cFin |-> isFinalized])
    /\ UNCHANGED <<reactVars, refVars, platformVars, fins, bgTimers, plays, dlTimers,
                   mounted, ret>>

\* resumeRecording: invalidates the finalization, then startRecording
ResumeRecording ==
    /\ mounted /\ Len(starts) < MaxPending
    /\ isFinalized' = FALSE
    /\ starts' = Append(starts, [cState |-> state, cUrl |-> audioUrl, cFin |-> isFinalized])
    /\ fins' = MarkCaptured(fins)
    /\ ret' = NoRet
    /\ UNCHANGED <<reactVars, mediaRecorderRef, streamRef, audioRef, timerRef, playbackTimerRef,
                   chunksRef, pausedTimeRef, totalRecordingDurationRef,
                   platformVars, bgTimers, plays, dlTimers, mounted>>

\* variant: a catch that leaves the rejected start pending, to be tried again
StartDeniedRetries(i) ==
    /\ mounted /\ i \in DOMAIN starts
    /\ hasPermission # "denied"
    /\ hasPermission' = "denied"
    /\ UNCHANGED <<state, duration, playbackTime, audioBlob, audioUrl, refVars, platformVars,
                   taskVars, mounted, ops, ret>>

\* getUserMedia rejects: the catch sets the permission flag
StartDenied(i) ==
    /\ mounted /\ i \in DOMAIN starts
    /\ starts' = RemoveAt(starts, i)
    /\ hasPermission' = "denied"
    /\ UNCHANGED <<state, duration, playbackTime, audioBlob, audioUrl, refVars, platformVars,
                   fins, bgTimers, plays, dlTimers, mounted, ops, ret>>

\* getUserMedia resolves: the rest of startRecording runs with the closure's state
StartGranted(i) ==
    /\ mounted /\ i \in DOMAIN starts /\ FreshRec # NoRec
    /\ LET c == starts[i]
           r == FreshRec
           fresh == c.cState = "idle"
           drop == fresh /\ c.cUrl # NoUrl
           e0 == [CurEnv EXCEPT !.tracks = @ \cup {r},
                                !.recorders[r] = [st |-> "recording", wait |-> NoWait, ids |-> {}]]
           e1 == IF drop THEN RevokeObjectURL(e0, c.cUrl) ELSE e0
           e2 == StartTimer(e1)
           newUrl == IF drop THEN NoUrl ELSE audioUrl
           newPaused == IF fresh THEN 0 ELSE pausedTimeRef
       IN /\ SetEnv(AfterRender(e2, r, audioUrl, newUrl))
          /\ streamRef' = r
          /\ mediaRecorderRef' = r
          /\ chunksRef' = IF fresh THEN <<>> ELSE chunksRef
          /\ pausedTimeRef' = newPaused
          /\ duration' = IF newPaused > 0 THEN newPaused ELSE IF fresh THEN 0 ELSE duration
          /\ totalRecordingDurationRef' = IF fresh THEN 0 ELSE totalRecordingDurationRef
          /\ audioBlob' = IF fresh THEN NoBlob ELSE audioBlob
          /\ audioUrl' = newUrl
          /\ isFinalized' = FALSE
          /\ state' = "recording"
    /\ starts' = RemoveAt(starts, i)
    /\ fins' = MarkCaptured(fins)
    /\ ret' = NoRet
    /\ UNCHANGED <<playbackTime, hasPermission, audioRef, urlBlob, emitted,
                   bgTimers, plays, dlTimers, mounted, ops>>

\* ---------------------------------------------------------- capture device
\* variant: every payload is appended
OnDataAvailableKeepAll(chunks, data) == Append(chunks, data)

\* mediaRecorder.ondataavailable: empty payloads are dropped
OnDataAvailable(chunks, data) == IF data.size > 0 THEN Append(chunks, data) ELSE chunks

RECURSIVE DeliverAll(_, _, _)
DeliverAll(chunks, rs, id) ==
    IF rs = {} THEN chunks
    ELSE LET r == CHOOSE q \in rs : \A p \in rs : q <= p
         IN DeliverAll(OnDataAvailable(chunks, [id |-> id, size |-> Scale]), rs \ {r}, id + 1)

Recording == {r \in Recorders : recorders[r].st = "recording"}

\* the id DeliverAll gives to the fragment of recorder r in this second
EmitId(r) == emitted + Cardinality({q \in Recording : q <= r})

\* One second passes.  The tick interval (1000 ms) and the recorder's timeslice
\* (start(1000)) are started together by startRecording and stay in step: every
\* recorder that is recording delivers a fragment and every live tick interval
\* adds one to duration.
SecondElapses ==
    /\ mounted
    /\ tickers > 0 \/ Recording # {}
    /\ duration + tickers <= MaxDuration
    /\ emitted + Cardinality(Recording) <= MaxFrags
    /\ duration' = duration + tickers
    /\ chunksRef' = DeliverAll(chunksRef, Recording, emitted + 1)
    /\ emitted' = emitted + Cardinality(Recording)
    /\ recorders' = [r \in Recorders |->
                        IF r \in Recording
                        THEN [recorders[r] EXCEPT !.ids = @ \cup {EmitId(r)}]
                        ELSE recorders[r]]
    /\ fins' = IF Recording # {} THEN MarkCaptured(fins) ELSE fins
    /\ ret' = IF Recording # {} THEN NoRet ELSE ret
    /\ UNCHANGED <<state, playbackTime, hasPermission, audioBlob, audioUrl,
                   mediaRecorderRef, streamRef, audioRef, timerRef, playbackTimerRef,
                   pausedTimeRef, totalRecordingDurationRef, isFinalized,
                   tracks, tickers, pollers, liveUrls, urlBlob,
                   starts, bgTimers, plays, dlTimers, mounted, ops>>

\* pauseRecording up to its await: wraps onstop, stops the recorder and the ticker
PauseRecording ==
    /\ mounted
    /\ mediaRecorderRef # NoRec /\ recorders[mediaRecorderRef].st = "recording"
    /\ SetEnv(StopTimer([CurEnv EXCEPT !.recorders[mediaRecorderRef] =
                            [st |-> "stopping",
                             wait |-> [on |-> TRUE, cDur |-> duration, cUrl |-> audioUrl],
                             ids |-> recorders[mediaRecorderRef].ids]]))
    /\ UNCHANGED <<reactVars, mediaRecorderRef, streamRef, audioRef, chunksRef, pausedTimeRef,
                   totalRecordingDurationRef, isFinalized, urlBlob, emitted,
                   taskVars, mounted, ret>>

\* the stopped recorder delivers its last buffered data, then its stop event:
\* the original onstop stops the tracks of streamRef.current, and the wrapper
\* installed by pauseRecording resumes it after its await
RecorderStopped(r, size) ==
    /\ mounted /\ recorders[r].st = "stopping"
    /\ size > 0 => emitted < MaxFrags
    /\ LET w == recorders[r].wait
           chunks1 == OnDataAvailable(chunksRef, [id |-> emitted + 1, size |-> size])
           e0 == [CurEnv EXCEPT !.recorders[r] = [st |-> "inactive", wait |-> NoWait, ids |-> {}]]
       IN /\ SetEnv(StopTracks(e0, streamRef))
          /\ chunksRef' = chunks1
          /\ emitted' = IF size > 0 THEN emitted + 1 ELSE emitted
          /\ fins' = IF size > 0 THEN MarkCaptured(fins) ELSE fins
          /\ ret' = IF size > 0 THEN NoRet ELSE ret
          /\ pausedTimeRef' = IF w.on THEN w.cDur ELSE pausedTimeRef
          /\ state' = IF w.on THEN "paused" ELSE state
          /\ bgTimers' = IF w.on /\ chunks1 # <<>>
                         THEN Append(bgTimers, [cUrl |-> w.cUrl, cDur |-> w.cDur])
                         ELSE bgTimers
    /\ UNCHANGED <<duration, playbackTime, hasPermission, audioBlob, audioUrl,
                   mediaRecorderRef, streamRef, audioRef, totalRecordingDurationRef, isFinalized,
                   urlBlob, starts, plays, dlTimers, mounted, ops>>


\* ------------------------------------------------------------ finalization
\* variant: an early return that tests only for the empty fragment list
FinalizeNoOpChunksOnly == chunksRef = <<>>

\* variant: an early return whose test of the flag is negated
FinalizeNoOpInverted == ~isFinalized \/ chunksRef = <<>>

\* the early return of finalizeRecording
FinalizeNoOp == isFinalized \/ chunksRef = <<>>

\* variant: a conversion that reads the fragment list when it runs
ConvertInputLive(f, chunks) == chunks

\* the fragments of the blob convertToWav works on: the blob built from the
\* fragment list when finalize was invoked
ConvertInput(f, chunks) == f.webm

\* variant: an early return that hands back the published handle
FinalizeCallReturnsHandle(caller, cUrl, cDur) ==
    IF isFinalized \/ chunksRef = <<>>
    THEN /\ fins' = fins
         /\ ret' = Handle(audioUrl)
    ELSE /\ Len(fins) < MaxPending
         /\ fins' = Append(fins, [pc |-> "convert", webm |-> chunksRef, wav |-> NoBlob,
                                  url |-> NoUrl, cUrl |-> cUrl, cDur |-> cDur,
                                  caller |-> caller, clean |-> TRUE, moved |-> FALSE])
         /\ ret' = ret

\* finalizeRecording up to its first await, called from `caller` with the
\* closure values of the render the caller was created in
FinalizeCall(caller, cUrl, cDur) ==
    IF FinalizeNoOp
    THEN /\ fins' = fins
         /\ ret' = Null
    ELSE /\ Len(fins) < MaxPending
         /\ fins' = Append(fins, [pc |-> "convert", webm |-> chunksRef, wav |-> NoBlob,
                                  url |-> NoUrl, cUrl |-> cUrl, cDur |-> cDur,
                                  caller |-> caller, clean |-> TRUE, moved |-> FALSE])
         /\ ret' = ret

\* the timeout scheduled by pauseRecording fires and calls finalizeRecording
BgFinalize ==
    /\ mounted /\ bgTimers # <<>>
    /\ FinalizeCall("bg", Head(bgTimers).cUrl, Head(bgTimers).cDur)
    /\ bgTimers' = Tail(bgTimers)
    /\ UNCHANGED <<reactVars, refVars, platformVars, starts, plays, dlTimers,
                   mounted, ops>>

\* convertToWav returns (the WAV, or the input blob when conversion failed);
\* the closure's audioUrl is revoked and the new object URL created
FinConverted(i, ok) ==
    /\ mounted /\ i \in DOMAIN fins /\ fins[i].pc = "convert" /\ FreshUrl # NoUrl
    /\ LET f == fins[i]
           u == FreshUrl
           wav == [kind |-> IF ok THEN "wav" ELSE "webm", frags |-> ConvertInput(f, chunksRef)]
       IN /\ liveUrls' = (liveUrls \ {f.cUrl}) \cup {u}
          /\ urlBlob' = [urlBlob EXCEPT ![u] = wav]
          /\ fins' = [fins EXCEPT ![i] = [f EXCEPT !.pc = "decode", !.wav = wav, !.url = u,
                                                   !.moved = chunksRef # f.webm]]
    /\ UNCHANGED <<reactVars, refVars, recorders, tracks, tickers, pollers, emitted,
                   starts, bgTimers, plays, dlTimers, mounted, ops, ret>>

\* the tail of finalizeRecording: setAudioBlob, setAudioUrl, return to the caller
Publish(i) ==
    LET f == fins[i] IN
    /\ audioBlob' = f.wav
    /\ audioUrl' = f.url
    /\ SetEnv(AfterRender(CurEnv, streamRef, audioUrl, f.url))
    /\ fins' = RemoveAt(fins, i)
    /\ ret' = IF f.clean THEN Handle(f.url) ELSE ret
    /\ plays' = IF f.caller = "play" THEN Append(plays, [pc |-> "wait", curUrl |-> f.url])
                ELSE plays
    /\ state' = IF f.caller = "download" THEN "downloading" ELSE state
    /\ dlTimers' = IF f.caller = "download" THEN Append(dlTimers, [cUrl |-> f.cUrl])
                   ELSE dlTimers

\* the duration decode settles: decoder duration, or the closure's duration on
\* failure; a failure before the decode (outer catch) goes on without awaiting
FinDecoded(i, outcome) ==
    /\ mounted /\ i \in DOMAIN fins /\ fins[i].pc = "decode"
    /\ totalRecordingDurationRef' =
           IF outcome = "ok" THEN DecodedDuration(fins[i].wav.frags)
           ELSE Scale * fins[i].cDur
    /\ isFinalized' = TRUE
    /\ IF outcome = "processError"
       THEN /\ Publish(i)
            /\ UNCHANGED <<duration, playbackTime, hasPermission>>
       ELSE /\ fins' = [fins EXCEPT ![i].pc = "close"]
            /\ UNCHANGED <<reactVars, timerRef, playbackTimerRef, recorders, tracks, tickers,
                           pollers, liveUrls, plays, dlTimers, ret>>
    /\ UNCHANGED <<mediaRecorderRef, streamRef, audioRef, chunksRef, pausedTimeRef,
                   urlBlob, emitted, starts, bgTimers, mounted, ops>>

\* audioContext.close() resolves: the result is published
FinPublished(i) ==
    /\ mounted /\ i \in DOMAIN fins /\ fins[i].pc = "close"
    /\ Publish(i)
    /\ UNCHANGED <<duration, playbackTime, hasPermission,
                   mediaRecorderRef, streamRef, audioRef, chunksRef, pausedTimeRef,
                   totalRecordingDurationRef, isFinalized,
                   urlBlob, emitted, starts, bgTimers, mounted, ops>>

\* ----------------------------------------------------------------- player
NeedFinalize ==
    chunksRef # <<>> /\ (audioBlob = NoBlob \/ audioUrl = NoUrl \/ ~isFinalized)

\* playAudio from `if (currentAudioUrl)` to `await audioRef.current.play()`:
\* the element is created or reloaded and play() fires the play event
PlayBind(curUrl, ps) ==
    IF curUrl = NoUrl
    THEN /\ plays' = ps
         /\ UNCHANGED <<audioRef, timerRef, playbackTimerRef, recorders, tracks, tickers,
                        pollers, liveUrls>>
    ELSE /\ audioRef' = [exists |-> TRUE, src |-> curUrl, loadable |-> curUrl \in liveUrls,
                         paused |-> FALSE, ended |-> FALSE, playing |-> FALSE, pos |-> 0]
         /\ SetEnv(StartPlaybackTimer(CurEnv))
         /\ plays' = Append(IF audioRef.exists THEN RejectPlayPromises(ps) ELSE ps,
                            [pc |-> "settle", curUrl |-> curUrl])

\* playAudio invoked when a finalization is needed first
PlayFinalize ==
    /\ mounted /\ NeedFinalize /\ Len(plays) < MaxPending
    /\ FinalizeCall("play", audioUrl, duration)
    /\ plays' = IF FinalizeNoOp THEN Append(plays, [pc |-> "wait", curUrl |-> audioUrl])
                ELSE plays
    /\ UNCHANGED <<reactVars, refVars, platformVars, starts, bgTimers, dlTimers,
                   mounted>>

\* playAudio invoked with a current artifact
PlayDirect ==
    /\ mounted /\ ~NeedFinalize /\ Len(plays) < MaxPending
    /\ PlayBind(audioUrl, plays)
    /\ UNCHANGED <<reactVars, mediaRecorderRef, streamRef, chunksRef, pausedTimeRef,
                   totalRecordingDurationRef, isFinalized, urlBlob, emitted,
                   starts, fins, bgTimers, dlTimers, mounted, ret>>

\* the 100 ms wait after the finalization is over
PlayAfterWait(i) ==
    /\ mounted /\ i \in DOMAIN plays /\ plays[i].pc = "wait"
    /\ PlayBind(plays[i].curUrl, RemoveAt(plays, i))
    /\ UNCHANGED <<reactVars, mediaRecorderRef, streamRef, chunksRef, pausedTimeRef,
                   totalRecordingDurationRef, isFinalized, urlBlob, emitted,
                   starts, fins, bgTimers, dlTimers, mounted, ops, ret>>

\* play() resolves (metadata loaded, playback running) or rejects
PlaySettled(i, ok) ==
    /\ mounted /\ i \in DOMAIN plays /\ plays[i].pc = "settle"
    /\ ok => audioRef.loadable
    /\ plays' = RemoveAt(plays, i)
    /\ IF ok
       THEN /\ audioRef' = [audioRef EXCEPT !.playing = TRUE]
            /\ playbackTime' = 0
            /\ state' = "playing"
            /\ SetEnv(StartPlaybackTimer(CurEnv))
       ELSE UNCHANGED <<audioRef, playbackTime, state, timerRef, playbackTimerRef, recorders,
                        tracks, tickers, pollers, liveUrls>>
    /\ UNCHANGED <<duration, hasPermission, audioBlob, audioUrl,
                   mediaRecorderRef, streamRef, chunksRef, pausedTimeRef,
                   totalRecordingDurationRef, isFinalized, urlBlob, emitted,
                   starts, fins, bgTimers, dlTimers, mounted, ops, ret>>

\* the element plays on by one position unit; the 100 ms poll, when an interval
\* is live, has copied the new position before the next unit is reached
PlayerAdvance ==
    /\ mounted /\ audioRef.playing
    /\ audioRef.pos < DecodedDuration(urlBlob[audioRef.src].frags)
    /\ audioRef' = [audioRef EXCEPT !.pos = @ + 1]
    /\ playbackTime' = IF pollers > 0 THEN audioRef.pos + 1 ELSE playbackTime
    /\ UNCHANGED <<state, duration, hasPermission, audioBlob, audioUrl, mediaRecorderRef, streamRef, timerRef, playbackTimerRef, chunksRef,
                   pausedTimeRef, totalRecordingDurationRef, isFinalized,
                   platformVars, taskVars, mounted, ops, ret>>

\* the playback-position interval fires
PollTick ==
    /\ mounted /\ pollers > 0
    /\ audioRef.exists /\ ~audioRef.paused /\ ~audioRef.ended
    /\ playbackTime' = audioRef.pos
    /\ UNCHANGED <<state, duration, hasPermission, audioBlob, audioUrl, refVars,
                   platformVars, taskVars, mounted, ops, ret>>

\* the element reaches the end: pause event, then ended event
PlayerEnded ==
    /\ mounted /\ audioRef.playing
    /\ audioRef.pos = DecodedDuration(urlBlob[audioRef.src].frags)
    /\ audioRef' = [audioRef EXCEPT !.playing = FALSE, !.paused = TRUE, !.ended = TRUE]
    /\ playbackTime' = totalRecordingDurationRef
    /\ state' = "paused"
    /\ SetEnv(StopPlaybackTimer(CurEnv))
    /\ UNCHANGED <<duration, hasPermission, audioBlob, audioUrl,
                   mediaRecorderRef, streamRef, chunksRef, pausedTimeRef,
                   totalRecordingDurationRef, isFinalized, urlBlob, emitted,
                   taskVars, mounted, ops, ret>>

\* pausePlayback
PausePlayback ==
    /\ mounted /\ audioRef.exists
    /\ audioRef' = [audioRef EXCEPT !.playing = FALSE, !.paused = TRUE]
    /\ state' = "paused"
    /\ SetEnv(StopPlaybackTimer(CurEnv))
    /\ plays' = RejectPlayPromises(plays)
    /\ UNCHANGED <<duration, playbackTime, hasPermission, audioBlob, audioUrl,
                   mediaRecorderRef, streamRef, chunksRef, pausedTimeRef,
                   totalRecordingDurationRef, isFinalized, urlBlob, emitted,
                   starts, fins, bgTimers, dlTimers, mounted, ret>>

\* ------------------------------------------------------- delete, download
\* clearRecording as created in a render whose audioUrl was cUrl
ClearRecording(cUrl) ==
    LET e1 == StopPlaybackTimer(StopTimer(CurEnv))
        e2 == IF mediaRecorderRef # NoRec /\ e1.recorders[mediaRecorderRef].st = "recording"
              THEN [e1 EXCEPT !.recorders[mediaRecorderRef].st = "stopping"] ELSE e1
        e3 == RevokeObjectURL(StopTracks(e2, streamRef), cUrl)
    IN /\ SetEnv(AfterRender(e3, streamRef, audioUrl, NoUrl))
       /\ audioRef' = NoPlayer
       /\ plays' = IF audioRef.exists THEN RejectPlayPromises(plays) ELSE plays
       /\ state' = "idle"
       /\ duration' = 0
       /\ playbackTime' = 0
       /\ audioBlob' = NoBlob
       /\ audioUrl' = NoUrl
       /\ chunksRef' = <<>>
       /\ pausedTimeRef' = 0
       /\ totalRecordingDurationRef' = 0
       /\ isFinalized' = FALSE
       /\ fins' = MarkCaptured(fins)
       /\ ret' = NoRet

\* variant: a delete that does nothing while the permission flag is not granted
DeleteRecordingIfPermitted ==
    /\ mounted /\ hasPermission = "granted"
    /\ ClearRecording(audioUrl)
    /\ UNCHANGED <<hasPermission, mediaRecorderRef, streamRef, urlBlob, emitted,
                   starts, bgTimers, dlTimers, mounted>>

DeleteRecording ==
    /\ mounted
    /\ ClearRecording(audioUrl)
    /\ UNCHANGED <<hasPermission, mediaRecorderRef, streamRef, urlBlob, emitted,
                   starts, bgTimers, dlTimers, mounted>>

\* variant: the blob is handed out and no reset is scheduled
DownloadTailNoReset(blob, cUrl) ==
    IF blob # NoBlob
    THEN /\ state' = "downloading"
         /\ dlTimers' = dlTimers
    ELSE UNCHANGED <<state, dlTimers>>

\* variant: the reset is scheduled whether or not there is a blob
DownloadTailAlways(blob, cUrl) ==
    /\ state' = "downloading"
    /\ dlTimers' = Append(dlTimers, [cUrl |-> cUrl])

\* downloadRecording after its finalize step: hands the blob out and schedules the reset
DownloadTail(blob, cUrl) ==
    IF blob # NoBlob
    THEN /\ state' = "downloading"
         /\ dlTimers' = Append(dlTimers, [cUrl |-> cUrl])
    ELSE UNCHANGED <<state, dlTimers>>

DownloadFinalize ==
    /\ mounted /\ NeedFinalize /\ Len(dlTimers) < MaxPending
    /\ FinalizeCall("download", audioUrl, duration)
    /\ IF FinalizeNoOp THEN DownloadTail(audioBlob, audioUrl) ELSE UNCHANGED <<state, dlTimers>>
    /\ UNCHANGED <<duration, playbackTime, hasPermission, audioBlob, audioUrl, refVars,
                   platformVars, starts, bgTimers, plays, mounted>>

DownloadDirect ==
    /\ mounted /\ ~NeedFinalize /\ Len(dlTimers) < MaxPending
    /\ DownloadTail(audioBlob, audioUrl)
    /\ UNCHANGED <<duration, playbackTime, hasPermission, audioBlob, audioUrl, refVars,
                   platformVars, starts, fins, bgTimers, plays, mounted, ret>>

\* the 2000 ms timeout of downloadRecording fires
DownloadDelayElapsed ==
    /\ mounted /\ dlTimers # <<>>
    /\ ClearRecording(Head(dlTimers).cUrl)
    /\ dlTimers' = Tail(dlTimers)
    /\ UNCHANGED <<hasPermission, mediaRecorderRef, streamRef, urlBlob, emitted,
                   starts, bgTimers, mounted, ops>>

\* ------------------------------------------------------------ display time
\* playbackTime counts units of 1/Scale second, duration counts seconds
\* variant: the position rounded to the nearest second
getDisplayTimeRounded ==
    IF state = "playing" THEN (playbackTime + Scale \div 2) \div Scale ELSE duration

\* getDisplayTime: Math.floor(playbackTime) while playing, duration otherwise
getDisplayTime ==
    IF state = "playing" THEN playbackTime \div Scale ELSE duration

\* ---------------------------------------------------------------- disposal
\* unmount: the cleanup of the last effect runs; the instance is followed no further
Dispose ==
    /\ mounted /\ Budget
    /\ mounted' = FALSE
    /\ SetEnv(CleanupEffect(CurEnv, streamRef, audioUrl))
    /\ UNCHANGED <<reactVars, mediaRecorderRef, streamRef, audioRef, chunksRef, pausedTimeRef,
                   totalRecordingDurationRef, isFinalized, urlBlob, emitted, taskVars, ret>>

\* ------------------------------------------------- the AudioRecorder component
\* What the component renders for the current state decides which callbacks of
\* the hook the user can invoke.
\* the permission screens replace the recorder until access is granted
ShowsRecorder == hasPermission = "granted"

ClickAllowMic ==
    /\ ~ShowsRecorder /\ Budget
    /\ \E granted \in BOOLEAN : RequestPermission(granted)

ClickRecord == ShowsRecorder /\ state = "idle" /\ Budget /\ StartRecording

ClickPause == ShowsRecorder /\ state = "recording" /\ Budget /\ PauseRecording

ClickResume == ShowsRecorder /\ state = "paused" /\ Budget /\ ResumeRecording

ClickPlay ==
    /\ ShowsRecorder /\ state = "paused" /\ Budget
    /\ \/ PlayFinalize
       \/ PlayDirect

ClickPausePlayback == ShowsRecorder /\ state = "playing" /\ Budget /\ PausePlayback

\* the delete button is disabled in idle and hidden while downloading
ClickDelete ==
    ShowsRecorder /\ state \notin {"idle", "downloading"} /\ Budget /\ DeleteRecording

\* the submit button is disabled in idle, recording and downloading
ClickSubmit ==
    /\ ShowsRecorder /\ state \notin {"idle", "recording", "downloading"} /\ Budget
    /\ \/ DownloadFinalize
       \/ DownloadDirect

\* ------------------------------------------------------------- PCM encoder
\* A sample is the rational n / SampleUnit, kept as its numerator n.
SampleRates == {44100, 48000}

\* the buffers decodeAudioData can hand over
AudioBuffers ==
    UNION {[numberOfChannels : {c}, length : {l}, sampleRate : SampleRates,
            data : [1..c -> [1..l -> -MaxSample..MaxSample]]] :
           c \in 1..MaxChannels, l \in 1..MaxFrames}

\* little-endian bytes of a k-byte unsigned integer
RECURSIVE LittleEndian(_, _)
LittleEndian(n, k) == IF k = 0 THEN <<>> ELSE <<n % 256>> \o LittleEndian(n \div 256, k - 1)

\* DataView.setUint32 / setUint16 (value, littleEndian = true): modulo 2^32 /
\* 2^16; the 32-bit values written here are non-negative and below 2^31, which
\* the modulus leaves as they are
setUint32(v) == LittleEndian(v, 4)
setUint16(v) == LittleEndian(v % 65536, 2)

\* DataView.setInt16(num / den, true): ToInt16 drops the fraction (towards
\* zero) and wraps modulo 2^16; the bytes are the two's complement
ToInteger(num, den) == IF num >= 0 THEN num \div den ELSE -((-num) \div den)
setInt16(num, den) == LittleEndian(ToInteger(num, den) % 65536, 2)

\* writeString: the char codes
RIFF == <<82, 73, 70, 70>>
WAVE == <<87, 65, 86, 69>>
FMT == <<102, 109, 116, 32>>
DATA == <<100, 97, 116, 97>>

\* new ArrayBuffer(n): n zero bytes; a DataView write of bs at byte offset pos
ArrayBuffer(n) == [j \in 1..n |-> 0]
WriteAt(view, pos, bs) ==
    [j \in 1..Len(view) |-> IF j > pos /\ j <= pos + Len(bs) THEN bs[j - pos] ELSE view[j]]

\* Math.max(-1, Math.min(1, x))
Min(a, b) == IF a < b THEN a ELSE b
Max(a, b) == IF a > b THEN a ELSE b
Clamp(n) == Max(-SampleUnit, Min(SampleUnit, n))

\* variant: both signs scaled by 0x8000
ScaleSampleSymmetric(c) == c * 32768

\* sample < 0 ? sample * 0x8000 : sample * 0x7FFF (numerator over SampleUnit)
ScaleSample(c) == IF c < 0 THEN c * 32768 ELSE c * 32767

\* the sample loop: frame i, channel chan, two bytes each, from byte offset
\* `offset` on
RECURSIVE WriteSamples(_, _, _, _)
WriteSamples(view, buf, k, offset) ==
    IF k >= buf.length * buf.numberOfChannels THEN view
    ELSE LET i == (k \div buf.numberOfChannels) + 1
             chan == (k % buf.numberOfChannels) + 1
             sample == Clamp(buf.data[chan][i])
         IN WriteSamples(WriteAt(view, offset, setInt16(ScaleSample(sample), SampleUnit)),
                         buf, k + 1, offset + 2)

\* variant: a buffer without room for the header
WavLengthNoHeader(buf) == buf.length * buf.numberOfChannels * 2

\* audioBuffer.length * numOfChan * 2 + 44
WavLength(buf) == buf.length * buf.numberOfChannels * 2 + 44

\* audioUtils.ts: the header is written at a running position pos
encodeAudioBufferToWavBlob(buf) ==
    LET numOfChan == buf.numberOfChannels
        length == WavLength(buf)
        v0 == ArrayBuffer(length)
        v1 == WriteAt(v0, 0, RIFF)
        v2 == WriteAt(v1, 4, setUint32(length - 8))
        v3 == WriteAt(v2, 8, WAVE)
        v4 == WriteAt(v3, 12, FMT)
        v5 == WriteAt(v4, 16, setUint32(16))
        v6 == WriteAt(v5, 20, setUint16(1))
        v7 == WriteAt(v6, 22, setUint16(numOfChan))
        v8 == WriteAt(v7, 24, setUint32(buf.sampleRate))
        v9 == WriteAt(v8, 28, setUint32(buf.sampleRate * 2 * numOfChan))
        v10 == WriteAt(v9, 32, setUint16(numOfChan * 2))
        v11 == WriteAt(v10, 34, setUint16(16))
        v12 == WriteAt(v11, 36, DATA)
        v13 == WriteAt(v12, 40, setUint32(length - 40 - 4))
    IN WriteSamples(v13, buf, 0, 44)

\* useAudioRecorder.ts: the same container at fixed offsets
convertToWav(buf) ==
    LET length == buf.length
        numberOfChannels == buf.numberOfChannels
        v0 == ArrayBuffer(44 + length * numberOfChannels * 2)
        v1 == WriteAt(v0, 0, RIFF)
        v2 == WriteAt(v1, 4, setUint32(36 + length * numberOfChannels * 2))
        v3 == WriteAt(v2, 8, WAVE)
        v4 == WriteAt(v3, 12, FMT)
        v5 == WriteAt(v4, 16, setUint32(16))
        v6 == WriteAt(v5, 20, setUint16(1))
        v7 == WriteAt(v6, 22, setUint16(numberOfChannels))
        v8 == WriteAt(v7, 24, setUint32(buf.sampleRate))
        v9 == WriteAt(v8, 28, setUint32(buf.sampleRate * numberOfChannels * 2))
        v10 == WriteAt(v9, 32, setUint16(numberOfChannels * 2))
        v11 == WriteAt(v10, 34, setUint16(16))
        v12 == WriteAt(v11, 36, DATA)
        v13 == WriteAt(v12, 40, setUint32(length * numberOfChannels * 2))
    IN WriteSamples(v13, buf, 0, 44)

\* the encoder run on its own: any decoded buffer, either implementation
InitEncode == InitHook /\ audioBuffer \in AudioBuffers /\ encoded = NoWav

EncodeWithUtil ==
    /\ encoded = NoWav
    /\ encoded' = [by |-> "encodeAudioBufferToWavBlob",
                   bytes |-> encodeAudioBufferToWavBlob(audioBuffer)]
    /\ UNCHANGED <<audioBuffer, hookVars>>

EncodeWithHook ==
    /\ encoded = NoWav
    /\ encoded' = [by |-> "convertToWav", bytes |-> convertToWav(audioBuffer)]
    /\ UNCHANGED <<audioBuffer, hookVars>>

NextEncode ==
    \/ EncodeWithUtil
    \/ EncodeWithHook

SpecEncode == InitEncode /\ [][NextEncode]_vars

\* -------------------------------------------------------------------- Next
Next ==
    \/ HookStep(ClickAllowMic)
    \/ HookStep(ClickRecord)
    \/ HookStep(ClickPause)
    \/ HookStep(ClickResume)
    \/ HookStep(ClickPlay)
    \/ HookStep(ClickPausePlayback)
    \/ HookStep(ClickDelete)
    \/ HookStep(ClickSubmit)
    \/ HookStep(SecondElapses)
    \/ HookStep(\E i \in 1..MaxPending : StartDenied(i))
    \/ HookStep(\E i \in 1..MaxPending : StartGranted(i))
    \/ HookStep(\E r \in Recorders, size \in 0..1 : RecorderStopped(r, size))
    \/ HookStep(BgFinalize)
    \/ HookStep(\E i \in 1..MaxPending, ok \in BOOLEAN : FinConverted(i, ok))
    \/ HookStep(\E i \in 1..MaxPending, outcome \in {"ok", "decodeError", "processError"} : FinDecoded(i, outcome))
    \/ HookStep(\E i \in 1..MaxPending : FinPublished(i))
    \/ HookStep(\E i \in 1..MaxPending : PlayAfterWait(i))
    \/ HookStep(\E i \in 1..MaxPending, ok \in BOOLEAN : PlaySettled(i, ok))
    \/ HookStep(PlayerAdvance)
    \/ HookStep(PollTick)
    \/ HookStep(PlayerEnded)
    \/ HookStep(DownloadDelayElapsed)
    \/ HookStep(Dispose)

Spec == Init /\ [][Next]_vars


\* ================================================================= claims
\* the fields delete resets
TornDown ==
    /\ state = "idle" /\ duration = 0 /\ playbackTime = 0
    /\ audioBlob = NoBlob /\ audioUrl = NoUrl
    /\ chunksRef = <<>> /\ ~isFinalized

\* the session fields a finalization writes, in their reset state
ResetFields ==
    /\ state = "idle" /\ audioBlob = NoBlob /\ audioUrl = NoUrl
    /\ totalRecordingDurationRef = 0 /\ ~isFinalized /\ chunksRef = <<>>

\* a step of a finalization in flight
FinStep ==
    \E i \in 1..MaxPending :
        \/ \E ok \in BOOLEAN : FinConverted(i, ok)
        \/ \E outcome \in {"ok", "decodeError", "processError"} : FinDecoded(i, outcome)
        \/ FinPublished(i)

\* a step in which finalizeRecording is invoked
FinalizeInvoked == BgFinalize \/ PlayFinalize \/ DownloadFinalize

\* C1: whenever the session state is Idle, capturedFragments is empty and
\* authoritativeDuration is 0.
C1_IdleIsEmpty ==
    state = "idle" => (chunksRef = <<>> /\ totalRecordingDurationRef = 0)

\* C2: delete leaves the session torn down in Idle, and the session leaves Idle
\* only through a start (the step that completes startRecording).
C2_DeleteStaysIdle ==
    [][/\ ClickDelete => TornDown'
       /\ (state = "idle" /\ state' # "idle") => \E i \in 1..MaxPending : StartGranted(i)]_vars

\* C3: a finalization that completes after the session was reset leaves the
\* reset fields as they are.
C3_ResetSurvivesFinalization ==
    [][(FinStep /\ ResetFields) => ResetFields']_vars

\* C4: at most one finalization is in flight at any time.
C4_OneFinalizationInFlight == Len(fins) <= 1

\* C5: finalizationValid is true only if the published artifact was built from
\* exactly the fragments now in capturedFragments (stated for the states in
\* which an artifact is published).
C5_ValidMeansCurrent ==
    (isFinalized /\ audioBlob # NoBlob) => audioBlob.frags = chunksRef

\* C6: every append of a fragment to capturedFragments sets finalizationValid
\* to false.
C6_AppendInvalidates ==
    [][Len(chunksRef') > Len(chunksRef) => ~isFinalized']_vars

\* C7: the artifact (blob, handle) is non-null only if finalizationValid is true.
C7_ArtifactOnlyIfValid ==
    (audioBlob # NoBlob \/ audioUrl # NoUrl) => isFinalized

\* C8: finalize invoked with capturedFragments empty or finalizationValid true
\* returns null at once, starts no finalization and changes none of artifact,
\* handle, authoritativeDuration, finalizationValid and state.
C8_NoOpFinalize ==
    [][(FinalizeInvoked /\ (isFinalized \/ chunksRef = <<>>)) =>
            /\ ret' = Null
            /\ fins' = fins
            /\ liveUrls' = liveUrls
            /\ UNCHANGED <<audioBlob, audioUrl, totalRecordingDurationRef, isFinalized, state>>]_vars

\* C8 witness: a finalize call has just returned null on a finalized session.
C8_Witness == ret = Null /\ isFinalized /\ chunksRef # <<>>

\* C9 as stated: two finalize calls with no capture activity between them
\* return the identical handle.
C9_SameHandleTwice ==
    [][(ret # NoRet /\ ret' # NoRet) => ret' = ret]_vars

\* C9 amended: a finalize call made after an earlier call has returned its
\* artifact, with no capture activity between the two calls, returns null and
\* leaves the published handle unchanged.
C9_SecondCallReturnsNull ==
    [][(FinalizeInvoked /\ ret # NoRet /\ ret # Null) =>
            (ret' = Null /\ audioUrl' = audioUrl /\ fins' = fins)]_vars

\* C9 witness: the artifact of the first call is published and current, and a
\* second call has returned null.
C9_Witness ==
    /\ ret = Null /\ isFinalized
    /\ audioUrl # NoUrl /\ audioUrl \in liveUrls /\ audioBlob.frags = chunksRef

\* C10: a finalization takes its snapshot of capturedFragments when it is
\* invoked, and the artifact it publishes is built from exactly that snapshot.
C10_SnapshotAtInvocation ==
    [][/\ Len(fins') > Len(fins) => fins'[Len(fins')].webm = chunksRef
       /\ (audioUrl' # audioUrl /\ audioUrl' # NoUrl) =>
              \E i \in DOMAIN fins :
                  /\ fins[i].url = audioUrl'
                  /\ audioBlob'.frags = fins[i].webm
                  /\ urlBlob[audioUrl'].frags = fins[i].webm]_vars

\* C10 witness: capturedFragments had changed when the conversion of a suspended
\* finalization ran, and its converted blob holds the fragments of its invocation.
C10_Witness ==
    \E i \in DOMAIN fins :
        /\ fins[i].pc = "close"
        /\ fins[i].moved
        /\ fins[i].wav.frags = fins[i].webm

\* a step of pause: the click, or the continuation of pauseRecording after the
\* recorder's stop event
PauseStep ==
    \/ ClickPause
    \/ \E r \in Recorders, size \in 0..1 : RecorderStopped(r, size) /\ recorders[r].wait.on

\* a step of resume: the click, or the rest of startRecording run for a resume
ResumeStep ==
    \/ ClickResume
    \/ \E i \in 1..MaxPending : StartGranted(i) /\ starts[i].cState # "idle"

\* C11: pause and resume never reset elapsedSeconds: every step of a pause or of
\* a resume leaves it as it is (so that two segments of t1 and t2 ticks add up
\* to t1 + t2), and it goes down only on a transition into Idle or a fresh start.
C11_PauseResumeKeepElapsed ==
    [][/\ (PauseStep \/ ResumeStep) => duration' = duration
       /\ duration' < duration =>
              \/ state' = "idle"
              \/ \E i \in 1..MaxPending : StartGranted(i) /\ starts[i].cState = "idle"]_vars

\* ------------------------------------------------- start, ticks, pause
\* The session in which the user grants access, starts once and pauses, and
\* does nothing else; the platform's completions are fair: a stopped recorder
\* delivers its stop event, a scheduled timeout fires, the converter and the
\* decoder settle.
RecordOnce == ClickRecord /\ starts = <<>> /\ mediaRecorderRef = NoRec

DeviceStops == \E r \in Recorders, size \in 0..1 : RecorderStopped(r, size)

Converts == \E i \in 1..MaxPending, ok \in BOOLEAN : FinConverted(i, ok)

Decodes ==
    \E i \in 1..MaxPending, outcome \in {"ok", "decodeError", "processError"} : FinDecoded(i, outcome)

Publishes == \E i \in 1..MaxPending : FinPublished(i)

NextPauseOnly ==
    \/ HookStep(ClickAllowMic)
    \/ HookStep(RecordOnce)
    \/ HookStep(ClickPause)
    \/ HookStep(SecondElapses)
    \/ HookStep(\E i \in 1..MaxPending : StartDenied(i))
    \/ HookStep(\E i \in 1..MaxPending : StartGranted(i))
    \/ HookStep(DeviceStops)
    \/ HookStep(BgFinalize)
    \/ HookStep(Converts)
    \/ HookStep(Decodes)
    \/ HookStep(Publishes)

SpecPauseOnly ==
    /\ Init /\ [][NextPauseOnly]_vars
    /\ WF_vars(HookStep(DeviceStops)) /\ WF_vars(HookStep(BgFinalize))
    /\ WF_vars(HookStep(Converts)) /\ WF_vars(HookStep(Decodes)) /\ WF_vars(HookStep(Publishes))

\* C12: after start, some ticks and pause, with at least one fragment captured
\* and no further user event, the session is Paused and eventually
\* finalizationValid is true with an artifact published.
C12_PauseEventuallyFinalized ==
    (state = "paused" /\ chunksRef # <<>>)
        ~> (state = "paused" /\ isFinalized /\ audioBlob # NoBlob /\ audioUrl \in liveUrls)

\* C12 witness: paused after a tick, the background finalization has run to
\* its end and its artifact is published.
C12_Witness ==
    /\ state = "paused" /\ duration > 0 /\ isFinalized
    /\ audioBlob # NoBlob /\ audioBlob.frags = chunksRef
    /\ fins = <<>> /\ bgTimers = <<>>

\* ------------------------------------------------------ pause completion
FragIds(chunks) == {chunks[k].id : k \in DOMAIN chunks}

\* the continuation of pauseRecording runs for recorder r in this step and
\* schedules the background finalization
PauseCompletes(r) ==
    /\ recorders[r].wait.on /\ ~recorders'[r].wait.on
    /\ state' = "paused" /\ Len(bgTimers') > Len(bgTimers)

\* C13: when pause completes (the state becomes Paused and the background
\* finalization is scheduled), every fragment the stopped segment emitted,
\* the final buffered one included, is in capturedFragments.
C13_PauseHasAllFragments ==
    [][\A r \in Recorders :
          PauseCompletes(r) =>
              /\ recorders[r].ids \subseteq FragIds(chunksRef')
              /\ emitted' > emitted => emitted' \in FragIds(chunksRef')]_vars

\* ------------------------------------------------------------------ play
\* C14: play finalizes first when finalizationValid is false, so whenever the
\* state becomes Playing the handle bound to the player is that of an artifact
\* built from all fragments currently in capturedFragments.
C14_PlaysCurrentArtifact ==
    [][state # "playing" /\ state' = "playing" =>
           /\ audioRef'.exists /\ audioRef'.src \in liveUrls'
           /\ urlBlob'[audioRef'.src] # NoBlob
           /\ urlBlob'[audioRef'.src].frags = chunksRef']_vars

\* C15: when the player reaches the end while Playing, playbackPositionSeconds
\* is set to authoritativeDuration, the state becomes Paused and the
\* playback-position poll is stopped; no later poll tick overwrites the position.
C15_EndStopsPoll ==
    [][/\ PlayerEnded =>
              /\ playbackTime' = totalRecordingDurationRef'
              /\ state' = "paused"
              /\ pollers' = 0
       /\ audioRef.ended /\ audioRef'.ended /\ audioRef'.src = audioRef.src =>
              playbackTime' = playbackTime]_vars

\* ------------------------------------------- download called on the hook
\* The hook used directly: its callbacks are called by a client that does not
\* have the component's disabled buttons in front of them.  The client starts
\* from Idle and calls downloadRecording in whatever state the hook is in.
CallStart == state = "idle" /\ Budget /\ StartRecording

CallDownload ==
    /\ Budget
    /\ \/ DownloadFinalize
       \/ DownloadDirect

NextHookDownload ==
    \/ HookStep(CallStart)
    \/ HookStep(CallDownload)
    \/ HookStep(SecondElapses)
    \/ HookStep(\E i \in 1..MaxPending : StartDenied(i))
    \/ HookStep(\E i \in 1..MaxPending : StartGranted(i))
    \/ HookStep(DeviceStops)
    \/ HookStep(Converts)
    \/ HookStep(Decodes)
    \/ HookStep(Publishes)
    \/ HookStep(DownloadDelayElapsed)

SpecHookDownload == Init /\ [][NextHookDownload]_vars

\* C16: download invoked while the state is Recording is rejected or ignored:
\* the state stays Recording, no finalization is started, no artifact is
\* returned and no return to Idle is scheduled.
C16_DownloadIgnoredWhileRecording ==
    [][state = "recording" /\ CallDownload =>
           /\ state' = "recording"
           /\ fins' = fins
           /\ dlTimers' = dlTimers]_vars

\* ------------------------------------------------- download, then Idle
\* The component with one start per session and no unmount; the timeout that
\* downloadRecording schedules fires once its delay has passed.
NextDownload ==
    \/ HookStep(ClickAllowMic)
    \/ HookStep(RecordOnce)
    \/ HookStep(ClickPause)
    \/ HookStep(ClickResume)
    \/ HookStep(ClickPlay)
    \/ HookStep(ClickPausePlayback)
    \/ HookStep(ClickDelete)
    \/ HookStep(ClickSubmit)
    \/ HookStep(SecondElapses)
    \/ HookStep(\E i \in 1..MaxPending : StartDenied(i))
    \/ HookStep(\E i \in 1..MaxPending : StartGranted(i))
    \/ HookStep(DeviceStops)
    \/ HookStep(BgFinalize)
    \/ HookStep(Converts)
    \/ HookStep(Decodes)
    \/ HookStep(Publishes)
    \/ HookStep(\E i \in 1..MaxPending : PlayAfterWait(i))
    \/ HookStep(\E i \in 1..MaxPending, ok \in BOOLEAN : PlaySettled(i, ok))
    \/ HookStep(PlayerAdvance)
    \/ HookStep(PollTick)
    \/ HookStep(PlayerEnded)
    \/ HookStep(DownloadDelayElapsed)

SpecDownloadFair == Init /\ [][NextDownload]_vars /\ WF_vars(HookStep(DownloadDelayElapsed))

\* C17: every entry into Downloading is eventually followed by Idle: the fixed
\* delay elapses and the same full teardown as delete runs, whatever events
\* arrive in between.
C17_DownloadingLeadsToIdle ==
    /\ (state = "downloading") ~> (state = "idle")
    /\ [][DownloadDelayElapsed => TornDown']_vars

\* C17 witness: a download has entered Downloading and scheduled its reset, and
\* before the delay elapses another event (the device acquired for a resume)
\* has moved the session to Recording.
C17_Witness ==
    /\ dlTimers # <<>> /\ state = "recording"
    /\ \E r \in Recorders : recorders[r].st = "recording"

\* --------------------------------------------------------- decode failure
\* the duration decode of finalization i fails in this step
DecodeFails(i) == \E outcome \in {"decodeError", "processError"} : FinDecoded(i, outcome)

\* C18: if decoding fails during a finalization, the finalization still
\* completes: authoritativeDuration is set to the wall-clock elapsedSeconds,
\* finalizationValid becomes true, an artifact is published, and no error is
\* surfaced (the permission flag and the session state are unchanged).
C18_DecodeFailureFallsBack ==
    [][\A i \in 1..MaxPending :
          DecodeFails(i) =>
              /\ totalRecordingDurationRef' = Scale * duration'
              /\ isFinalized'
              /\ \/ audioBlob' = fins[i].wav /\ audioUrl' = fins[i].url
                 \/ i \in DOMAIN fins' /\ fins'[i].pc = "close"
              /\ hasPermission' = hasPermission
              /\ fins[i].caller # "download" => state' = state]_vars

\* ------------------------------------------------------ empty recordings
\* A capture device that delivers no audio: every dataavailable event, the
\* timeslice ones and the final one, carries a blob of size 0.
SilentSecondElapses ==
    /\ mounted
    /\ tickers > 0 \/ Recording # {}
    /\ duration + tickers <= MaxDuration
    /\ duration' = duration + tickers
    /\ chunksRef' = OnDataAvailable(chunksRef, [id |-> emitted + 1, size |-> 0])
    /\ UNCHANGED <<state, playbackTime, hasPermission, audioBlob, audioUrl,
                   mediaRecorderRef, streamRef, audioRef, timerRef, playbackTimerRef,
                   pausedTimeRef, totalRecordingDurationRef, isFinalized,
                   platformVars, taskVars, mounted, ops, ret>>

SilentStops == \E r \in Recorders : RecorderStopped(r, 0)

NextSilent ==
    \/ HookStep(ClickAllowMic)
    \/ HookStep(RecordOnce)
    \/ HookStep(ClickPause)
    \/ HookStep(ClickResume)
    \/ HookStep(ClickPlay)
    \/ HookStep(ClickSubmit)
    \/ HookStep(ClickDelete)
    \/ HookStep(SilentSecondElapses)
    \/ HookStep(\E i \in 1..MaxPending : StartDenied(i))
    \/ HookStep(\E i \in 1..MaxPending : StartGranted(i))
    \/ HookStep(SilentStops)

SpecSilent == Init /\ [][NextSilent]_vars

\* C19: when the captured data of a recording is a 0-byte buffer, after
\* pause/finalization authoritativeDuration equals elapsedSeconds and no error
\* is surfaced.
C19_EmptyBufferFallsBack ==
    [][\A r \in Recorders :
          recorders[r].wait.on /\ ~recorders'[r].wait.on =>
              /\ state' = "paused"
              /\ totalRecordingDurationRef' = Scale * duration'
              /\ hasPermission' = hasPermission]_vars

C21_DeniedResumeChangesNothing ==
    [][/\ ClickResume => UNCHANGED <<state, duration, chunksRef, audioBlob, audioUrl>>
       /\ \A i \in 1..MaxPending :
              StartDenied(i) /\ starts[i].cState = "paused" =>
                  /\ UNCHANGED <<state, duration, chunksRef, audioBlob, audioUrl>>
                  /\ isFinalized' = starts[i].cFin]_vars

\* ------------------------------------------------------------ second start
\* a start completes its device acquisition in this step
StartCompletes == \E i \in 1..MaxPending : StartGranted(i)

\* C22: a start invoked while the state is already Recording, or issued before
\* an earlier start's device acquisition has completed, is a no-op: the state
\* stays Recording with a single active capture device and a single
\* elapsed-time ticker, and capturedFragments and elapsedSeconds are unchanged.
C22_SecondStartIsNoOp ==
    [][state = "recording" /\ StartCompletes =>
           /\ state' = "recording"
           /\ Cardinality({r \in Recorders : recorders'[r].st = "recording"}) <= 1
           /\ tickers' <= 1
           /\ chunksRef' = chunksRef /\ duration' = duration]_vars

\* ------------------------------------------------------------------ timers
\* C23: timers are stopped on every transition that leaves their originating
\* state: no elapsed-time interval is live outside Recording, no
\* playback-position interval is live outside Playing, and neither is live
\* after a teardown, intervals whose reference was overwritten included.
C23_TimersStopWithState ==
    /\ state # "recording" => tickers = 0
    /\ state # "playing" => pollers = 0
    /\ ~mounted => tickers = 0 /\ pollers = 0

\* ------------------------------------------------------- artifact handles
\* the handles of the finalizations in flight (created, not yet published)
FinUrls == {fins[i].url : i \in DOMAIN fins}

\* a step that tears the session down
TeardownStep == ClickDelete \/ DownloadDelayElapsed \/ Dispose

\* C24: at most one published artifact handle is outstanding at any time:
\* every handle a finalization created is revoked no later than immediately
\* after the next one is published, and on teardown; no handle is left
\* unrevoked when two finalizations overlap.
C24_OneHandleOutstanding ==
    /\ [](liveUrls \subseteq ({audioUrl} \cup FinUrls))
    /\ [][TeardownStep => liveUrls' = {}]_vars

\* ------------------------------------------------------------ elapsed time
\* C25: while the state is Recording, elapsedSeconds is monotonic
\* non-decreasing: no step taken in state Recording lowers it.
C25_ElapsedMonotonicWhileRecording ==
    [][state = "recording" /\ state' = "recording" => duration' >= duration]_vars

\* -------------------------------------------------------- playback position
\* C26: in every reachable state 0 <= playbackPositionSeconds <=
\* authoritativeDuration, also when authoritativeDuration came from the
\* wall-clock fallback and the player reports positions from the real audio.
C26_PositionWithinDuration ==
    0 <= playbackTime /\ playbackTime <= totalRecordingDurationRef

\* ------------------------------------------------------ clearing fragments
\* a fragment that was in capturedFragments is no longer there after the step
FragmentRemoved == FragIds(chunksRef) \ FragIds(chunksRef') # {}

\* C27: capturedFragments is emptied only by a transition into Idle or by the
\* first start of a brand-new recording from Idle; no step taken while the
\* session is Recording, Paused, Playing or Downloading removes a fragment,
\* and resume never clears it.
C27_FragmentsClearedOnlyViaIdle ==
    [][FragmentRemoved =>
           \/ state' = "idle"
           \/ state = "idle" /\ \E i \in 1..MaxPending :
                                   StartGranted(i) /\ starts[i].cState = "idle"]_vars

\* ------------------------------------------------------------ display time
\* the whole seconds contained in a position given in units of 1/Scale second
FloorSeconds(x) == CHOOSE n \in 0..x : n * Scale <= x /\ x < (n + 1) * Scale

\* C28: the exposed display time equals floor(playbackPositionSeconds) when the
\* state is Playing and equals elapsedSeconds in every other state.
C28_DisplayTime ==
    /\ state = "playing" => getDisplayTime = FloorSeconds(playbackTime)
    /\ state # "playing" => getDisplayTime = duration

\* C28 witness: Playing at a position that is not a whole number of seconds,
\* with an elapsed time different from the displayed one.
C28_Witness ==
    /\ state = "playing" /\ playbackTime % Scale # 0
    /\ duration # getDisplayTime

\* ------------------------------------------------------------- never stuck
\* sessions of at most MaxEvents user events, which leaves no room for a
\* pause of the playback; the pending tasks run to the end
Brief(A) == A /\ ops' <= MaxEvents

NextBrief ==
    \/ HookStep(Brief(ClickAllowMic))
    \/ HookStep(Brief(ClickRecord))
    \/ HookStep(Brief(ClickPause))
    \/ HookStep(Brief(ClickResume))
    \/ HookStep(Brief(ClickPlay))
    \/ HookStep(Brief(ClickDelete))
    \/ HookStep(Brief(ClickSubmit))
    \/ HookStep(Brief(Dispose))
    \/ HookStep(SecondElapses)
    \/ HookStep(\E i \in 1..MaxPending : StartDenied(i))
    \/ HookStep(\E i \in 1..MaxPending : StartGranted(i))
    \/ HookStep(\E r \in Recorders, size \in 0..1 : RecorderStopped(r, size))
    \/ HookStep(BgFinalize)
    \/ HookStep(\E i \in 1..MaxPending, ok \in BOOLEAN : FinConverted(i, ok))
    \/ HookStep(\E i \in 1..MaxPending, outcome \in {"ok", "decodeError", "processError"} : FinDecoded(i, outcome))
    \/ HookStep(\E i \in 1..MaxPending : FinPublished(i))
    \/ HookStep(\E i \in 1..MaxPending : PlayAfterWait(i))
    \/ HookStep(\E i \in 1..MaxPending, ok \in BOOLEAN : PlaySettled(i, ok))
    \/ HookStep(PlayerAdvance)
    \/ HookStep(PollTick)
    \/ HookStep(PlayerEnded)
    \/ HookStep(DownloadDelayElapsed)

SpecBrief == Init /\ [][NextBrief]_vars

\* C29: the session never gets stuck: in every reachable state of a mounted
\* instance, those reached through acquisition failure, decode failure or
\* player start failure included, deleteRecording can be invoked and leads to
\* Idle, as does the download delay, and from Idle a recording can be started.
C29_NeverStuck ==
    /\ mounted => ENABLED (DeleteRecording /\ state' = "idle")
    /\ mounted /\ state = "downloading" => ENABLED (DownloadDelayElapsed /\ state' = "idle")
    /\ mounted /\ state = "idle" /\ Len(starts) < MaxPending => ENABLED StartRecording

\* C29 witness: a resume whose device acquisition failed has left the session
\* Paused with its fragments, after a decode failure in the finalization.
C29_Witness ==
    /\ mounted /\ state = "paused" /\ hasPermission = "denied"
    /\ chunksRef # <<>> /\ audioBlob # NoBlob
    /\ totalRecordingDurationRef # DecodedDuration(audioBlob.frags)

\* ----------------------------------------------------------------- disposal
\* C30: on instance disposal the session is torn down, in whatever state the
\* disposal occurs: the capture device is released, the outstanding artifact
\* handle is revoked and both timers are stopped.
C30_DisposalTearsDown ==
    [][mounted /\ ~mounted' =>
           /\ tracks' = {}
           /\ audioUrl \notin liveUrls'
           /\ tickers' = 0
           /\ pollers' = 0]_vars

\* -------------------------------------------------------------- PCM encoder
\* C31: for every decoded buffer with frameCount frames and channelCount
\* channels the encoder output is exactly 44 + frameCount * channelCount * 2
\* bytes long, in both implementations.
C31_EncodedLength ==
    encoded # NoWav =>
        Len(encoded.bytes) = 44 + audioBuffer.length * audioBuffer.numberOfChannels * 2

\* C31 witness: convertToWav has encoded two frames of two channels into 52 bytes.
C31_Witness ==
    /\ encoded.by = "convertToWav"
    /\ audioBuffer.length = 2 /\ audioBuffer.numberOfChannels = 2
    /\ Len(encoded.bytes) = 52

\* the 16-bit signed value stored for the k-th sample (k from 0) after the header
StoredSample(bytes, k) ==
    LET u == bytes[44 + 2 * k + 1] + 256 * bytes[44 + 2 * k + 2]
    IN IF u >= 32768 THEN u - 65536 ELSE u

\* C32: every sample is clamped to [-1, 1] and then scaled by 32768 when
\* negative and by 32767 when non-negative (the fraction dropped), so every
\* stored 16-bit value lies in [-32768, 32767], with -1 stored as -32768, 0 as
\* 0 and 1 as 32767; the samples are stored frame by frame, channel by channel.
C32_ClampAndScale ==
    encoded # NoWav =>
        \A i \in 1..audioBuffer.length, chan \in 1..audioBuffer.numberOfChannels :
            LET x == audioBuffer.data[chan][i]
                c == IF x < -SampleUnit THEN -SampleUnit
                     ELSE IF x > SampleUnit THEN SampleUnit ELSE x
                v == StoredSample(encoded.bytes,
                                  (i - 1) * audioBuffer.numberOfChannels + chan - 1)
            IN /\ v \in -32768..32767
               /\ c < 0 => v * SampleUnit >= c * 32768 /\ (v - 1) * SampleUnit < c * 32768
               /\ c >= 0 => v * SampleUnit <= c * 32767 /\ (v + 1) * SampleUnit > c * 32767
               /\ x <= -SampleUnit => v = -32768
               /\ x = 0 => v = 0
               /\ x >= SampleUnit => v = 32767

\* C32 witness: encodeAudioBufferToWavBlob has encoded a sample below -1, a
\* sample above 1, a zero and a fraction.
C32_Witness ==
    /\ encoded.by = "encodeAudioBufferToWavBlob"
    /\ audioBuffer.numberOfChannels = 2 /\ audioBuffer.length = 2
    /\ audioBuffer.data = <<<<-MaxSample, 0>>, <<MaxSample, 2>>>>
    /\ StoredSample(encoded.bytes, 1) = 32767 /\ StoredSample(encoded.bytes, 3) = 21844

\* ------------------------------------------------- capture while Recording
\* C34: once the state is Recording, the elapsed-time ticker keeps running and
\* the capture stream stays live until pause, delete or disposal (the last two
\* leave Recording or unmount); in particular the completion of a finalization
\* started before the resume stops neither.
C34_RecordingKeepsCapturing ==
    [][state = "recording" /\ state' = "recording" /\ mounted' /\ ~PauseRecording =>
           /\ tickers >= 1 => tickers' >= 1
           /\ \A r \in Recorders :
                  r \in tracks /\ recorders[r].st = "recording" =>
                      r \in tracks' /\ recorders'[r].st = "recording"]_vars

\* C35: in every reachable state a capture device is actively recording only
\* if the session state is Recording.
C35_CaptureOnlyWhileRecording ==
    (\E r \in Recorders : recorders[r].st = "recording") => state = "recording"

\* C36: from Downloading the only successor state is Idle; a player 'ended'
\* notification or a pausePlayback call after a download invoked in Playing
\* does not move the session to Paused.
C36_DownloadingOnlyToIdle ==
    [][state = "downloading" => state' \in {"downloading", "idle"}]_vars

\* C37: while the state is Playing the artifact handle loaded in the player is
\* never revoked, neither by a finalization completing during the playback nor
\* by a cleanup effect (a step that leaves Playing or unmounts may revoke it).
C37_PlayingHandleNotRevoked ==
    [][/\ state = "playing" /\ state' = "playing" /\ mounted'
       /\ audioRef.exists /\ audioRef.src \in liveUrls
       => audioRef.src \in liveUrls']_vars

\* C38: a data-availability event whose payload has size 0 is never appended
\* to capturedFragments: every element of chunksRef has size greater than 0.
C38_NoEmptyFragment ==
    \A i \in DOMAIN chunksRef : chunksRef[i].size > 0

\* C38 witness: a recorder was stopped before its first timeslice and delivered
\* an empty final payload with its stop event; nothing was appended.
C38_Witness ==
    /\ state = "paused" /\ emitted = 0 /\ chunksRef = <<>>
    /\ \E r \in Recorders : recorders[r].st = "inactive"

\* ------------------------------------------------- pausePlayback, anywhere
\* The hook used directly: a client calls pausePlayback in whatever state the
\* hook is in (the component shows its button while Playing only).  The call
\* is not one of the component's user events and is not counted among them.
CallPausePlayback == PausePlayback /\ UNCHANGED ops

NextHookPause ==
    \/ HookStep(ClickAllowMic)
    \/ HookStep(RecordOnce)
    \/ HookStep(ClickPause)
    \/ HookStep(ClickResume)
    \/ HookStep(ClickPlay)
    \/ HookStep(ClickDelete)
    \/ HookStep(ClickSubmit)
    \/ HookStep(CallPausePlayback)
    \/ HookStep(SecondElapses)
    \/ HookStep(\E i \in 1..MaxPending : StartDenied(i))
    \/ HookStep(\E i \in 1..MaxPending : StartGranted(i))
    \/ HookStep(DeviceStops)
    \/ HookStep(BgFinalize)
    \/ HookStep(Converts)
    \/ HookStep(Decodes)
    \/ HookStep(Publishes)
    \/ HookStep(\E i \in 1..MaxPending : PlayAfterWait(i))
    \/ HookStep(\E i \in 1..MaxPending, ok \in BOOLEAN : PlaySettled(i, ok))
    \/ HookStep(PlayerAdvance)
    \/ HookStep(PollTick)
    \/ HookStep(PlayerEnded)
    \/ HookStep(DownloadDelayElapsed)

SpecHookPause == Init /\ [][NextHookPause]_vars

\* C39: pausePlayback invoked in any state other than Playing is a no-op: it
\* does not set the state to Paused when the session is Recording, Downloading
\* or Idle, even if a player object from an earlier playback still exists.
C39_PausePlaybackOnlyWhilePlaying ==
    [][PausePlayback /\ state # "playing" => state' = state]_vars

\* ------------------------------------------------- download with nothing
\* C40: download invoked when there is no artifact and capturedFragments is
\* empty returns null (the branch that schedules nothing) and leaves the
\* session unchanged: the state is not set to Downloading and no
\* return-to-Idle teardown is scheduled.
C40_EmptyDownloadChangesNothing ==
    [][(DownloadFinalize \/ DownloadDirect) /\ audioBlob = NoBlob /\ chunksRef = <<>> =>
           UNCHANGED <<reactVars, refVars, platformVars, taskVars, mounted, ret>>]_vars

\* C40 witness: a client whose first call was downloadRecording, with nothing
\* recorded: the session is as constructed.
C40_Witness ==
    /\ ops >= 1 /\ mounted /\ state = "idle" /\ hasPermission # "denied"
    /\ starts = <<>> /\ dlTimers = <<>> /\ audioBlob = NoBlob /\ chunksRef = <<>>
    /\ \A r \in Recorders : recorders[r].st = "unused"

====
